---- MODULE Spec2Model ----
(***************************************************************************)
(* A model of the deployment plan declared by                              *)
(* catalog_cdk_mysql/catalog_cdk_mysql_stack.py (CatalogServerStack) and   *)
(* of the host bootstrap script embedded in it.                            *)
(*                                                                         *)
(* The stack is a declaration: what runs is the provisioning backend       *)
(* acting on the declared values.  Each part below states the declared     *)
(* values as definitions and the backend's steps as actions whose guards   *)
(* read those values.                                                      *)
(*                                                                         *)
(*   Spec        plan synthesis, submission, resource creation, and the    *)
(*               security group's verdict on inbound connections           *)
(*   FleetSpec   the auto scaling group: capacity, instances, scaling      *)
(*   BootSpec    the user-data script, one command at a time, on one host  *)
(*   TargetSpec  the load balancer's health checks and routing             *)
(*   HostSpec    one fleet member end to end, under fair scheduling        *)
(***************************************************************************)
EXTENDS Integers, Sequences, FiniteSets, TLC

VARIABLES
    \* ---- plan application
    region,     \* the region the plan is deployed to (an input of the run)
    phase,      \* "declared", "synthesized", "rejected", "deploying"
    image,      \* what the launch template's machine image resolved to
    created,    \* the declared resources that exist
    conn        \* the last inbound connection attempt and its verdict

planVars == <<region, phase, image, created, conn>>

VARIABLES
    \* ---- the instance fleet
    desired,    \* the group's desired capacity
    inst,       \* slot -> "none", "running" or "impaired"
    cpu,        \* the average CPU utilisation last reported, in percent
    now,        \* minutes since the fleet came up
    scaleLog    \* the times of the last two scaling actions, oldest first

fleetVars == <<desired, inst, cpu, now, scaleLog>>

VARIABLES
    \* ---- the bootstrap script on one host
    pc,         \* index in Script of the next command; Len(Script) + 1 when done
    ran,        \* indices of the commands executed
    failed,     \* indices of the commands that exited non-zero
    envFails,   \* how many commands failed for a reason outside the host
    m,          \* the host: packages, database, files, services
    reruns      \* how many times the database commands were run again

bootVars == <<pc, ran, failed, envFails, m, reruns>>

VARIABLES
    \* ---- the load balancer's target group
    health,     \* slot -> "initial", "healthy" or "unhealthy"
    fails,      \* slot -> consecutive failed probes
    passes,     \* slot -> consecutive passed probes
    fwd         \* the last forwarded request: its target and that target's state

lbVars == <<health, fails, passes, fwd>>

vars == <<planVars, fleetVars, bootVars, lbVars>>

NoConn == [src |-> "none", groups |-> {}, port |-> 0, verdict |-> "none"]

----------------------------------------------------------------------------
(* The declared resources and the references each holds.                   *)

Resources ==
    { "CatalogVPC", "ServerSG", "CatalogServerRole", "CatalogLaunchTemplate",
      "CatalogASG", "CpuScaling", "CatalogALB", "Listener", "WebTarget",
      "LoadBalancerDNS" }

\* A launch template that does not name its security group.
RefsNoSecurityGroup(r) ==
    CASE r = "CatalogVPC"            -> {}
      [] r = "ServerSG"              -> {"CatalogVPC"}
      [] r = "CatalogServerRole"     -> {}
      [] r = "CatalogLaunchTemplate" -> {"CatalogServerRole"}
      [] r = "CatalogASG"            -> {"CatalogVPC", "CatalogLaunchTemplate"}
      [] r = "CpuScaling"            -> {"CatalogASG"}
      [] r = "CatalogALB"            -> {"CatalogVPC"}
      [] r = "Listener"              -> {"CatalogALB"}
      [] r = "WebTarget"             -> {"Listener", "CatalogASG"}
      [] r = "LoadBalancerDNS"       -> {"CatalogALB"}

\* The resources r names in its constructor arguments.
Refs(r) ==
    CASE r = "CatalogVPC"            -> {}
      [] r = "ServerSG"              -> {"CatalogVPC"}
      [] r = "CatalogServerRole"     -> {}
      [] r = "CatalogLaunchTemplate" -> {"ServerSG", "CatalogServerRole"}
      [] r = "CatalogASG"            -> {"CatalogVPC", "CatalogLaunchTemplate"}
      [] r = "CpuScaling"            -> {"CatalogASG"}
      [] r = "CatalogALB"            -> {"CatalogVPC"}
      [] r = "Listener"              -> {"CatalogALB"}
      [] r = "WebTarget"             -> {"Listener", "CatalogASG"}
      [] r = "LoadBalancerDNS"       -> {"CatalogALB"}

----------------------------------------------------------------------------
(* The machine image: a region-to-image map with one entry.                *)

AmiMap == [r \in {"eu-west-1"} |-> "ami-0261755bbcb8c4a84"]

Regions == {"eu-west-1", "us-east-1", "ap-south-1"}

\* CatalogServerStack(app, "CatalogServerStack") passes no env: the stack's
\* region is a token resolved by the backend at deployment.
Unresolved == "AWS::Region"

StackRegion == Unresolved

\* generic_linux(map).get_image: with a concrete stack region the map is read
\* while the plan is compiled (and a missing entry raises there); with an
\* unresolved region the map is emitted into the template with a lookup
\* keyed by the deployment region.
GetImage(stackRegion) ==
    IF stackRegion = Unresolved
    THEN [kind |-> "lookup", id |-> "none"]
    ELSE IF stackRegion \in DOMAIN AmiMap
         THEN [kind |-> "ami", id |-> AmiMap[stackRegion]]
         ELSE [kind |-> "error", id |-> "none"]

\* app.synth(): compiles the plan; nothing is created.
Synth ==
    /\ phase = "declared"
    /\ image' = GetImage(StackRegion)
    /\ phase' = IF image'.kind = "error" THEN "synth_failed" ELSE "synthesized"
    /\ UNCHANGED <<region, created, conn>>

\* A submission that does not resolve the image lookup before creating.
TemplateValidNoLookup(img, rgn) == img.kind \in {"ami", "lookup"}

\* The backend validates the submitted template, lookups included, before it
\* creates anything.
TemplateValid(img, rgn) ==
    \/ img.kind = "ami"
    \/ img.kind = "lookup" /\ rgn \in DOMAIN AmiMap

Submit ==
    /\ phase = "synthesized"
    /\ IF TemplateValid(image, region)
       THEN /\ phase' = "deploying"
            /\ image' = IF image.kind = "lookup" /\ region \in DOMAIN AmiMap
                        THEN [kind |-> "ami", id |-> AmiMap[region]]
                        ELSE image
       ELSE /\ phase' = "rejected"
            /\ image' = image
    /\ UNCHANGED <<region, created, conn>>

\* The backend creates any resource whose references all exist; resources
\* with no reference between them are created in either order.
Create(r) ==
    /\ phase = "deploying"
    /\ r \notin created
    /\ Refs(r) \subseteq created
    /\ created' = created \cup {r}
    /\ UNCHANGED <<region, phase, image, conn>>

----------------------------------------------------------------------------
(* The security group's ingress rules.                                     *)

AnyIpv4 == "0.0.0.0/0"

\* The database port opened to any source.
IngressRulesOpenDb ==
    { [peer |-> AnyIpv4,    proto |-> "tcp", port |-> 80],
      [peer |-> AnyIpv4,    proto |-> "tcp", port |-> 443],
      [peer |-> AnyIpv4,    proto |-> "tcp", port |-> 3306],
      [peer |-> "ALBSG",    proto |-> "tcp", port |-> 80] }

\* The three rules added by add_ingress_rule, and the one add_targets adds
\* for the load balancer to reach its targets.
IngressRules ==
    { [peer |-> AnyIpv4,    proto |-> "tcp", port |-> 80],
      [peer |-> AnyIpv4,    proto |-> "tcp", port |-> 443],
      [peer |-> "ServerSG", proto |-> "tcp", port |-> 3306],
      [peer |-> "ALBSG",    proto |-> "tcp", port |-> 80] }

\* Who connects: name and the security groups it is a member of.
Sources ==
    { [name |-> "internet",   groups |-> {}],
      [name |-> "balancer",   groups |-> {"ALBSG"}],
      [name |-> "fleet_peer", groups |-> {"ServerSG"}] }

Ports == {22, 80, 443, 3306, 5000}

RuleMatches(rule, src, port) ==
    /\ rule.proto = "tcp"
    /\ rule.port = port
    /\ \/ rule.peer = AnyIpv4
       \/ rule.peer \in src.groups

\* A security group denies what no rule admits.
Admits(src, port) == \E rule \in IngressRules : RuleMatches(rule, src, port)

\* An inbound TCP connection to a fleet instance.
Connect(src, port) ==
    /\ "CatalogASG" \in created
    /\ conn' = [src |-> src.name, groups |-> src.groups, port |-> port,
                verdict |-> IF Admits(src, port) THEN "allow" ELSE "deny"]
    /\ UNCHANGED <<region, phase, image, created>>

----------------------------------------------------------------------------
(* The auto scaling group and its CPU scaling policy.                      *)

MinCapacity == 2
MaxCapacity == 4
DesiredCapacity == 2
Cooldown == 3                   \* minutes
TargetUtilization == 70         \* percent

MaxTime == 7

Slots == 1 .. MaxCapacity

CpuLevels == {20, TargetUtilization, 95}

Members == {i \in Slots : inst[i] # "none"}

Count == Cardinality(Members)

\* The state of the group once it has first reached its desired capacity.
FleetUp ==
    /\ desired = DesiredCapacity
    /\ inst = [i \in Slots |-> IF i <= DesiredCapacity THEN "running" ELSE "none"]
    /\ cpu = 20
    /\ now = 0
    /\ scaleLog = <<>>

\* The group before any instance exists.
FleetIdle ==
    /\ desired = DesiredCapacity
    /\ inst = [i \in Slots |-> "none"]
    /\ cpu = 20
    /\ now = 0
    /\ scaleLog = <<>>

Tick ==
    /\ now < MaxTime
    /\ now' = now + 1
    /\ UNCHANGED <<desired, inst, cpu, scaleLog>>

\* The load signal: any level, at any time.
CpuReport(c) ==
    /\ cpu' = c
    /\ cpu' # cpu
    /\ UNCHANGED <<desired, inst, now, scaleLog>>

\* A policy that starts a scaling activity whenever its metric asks for one.
CooldownOverIgnored == TRUE

\* cooldown=Duration.minutes(3): the period after a scaling activity before
\* another can start.
CooldownOver ==
    IF scaleLog = <<>> THEN TRUE ELSE now - scaleLog[Len(scaleLog)] >= Cooldown

Logged(t) ==
    IF Len(scaleLog) < 2 THEN Append(scaleLog, t) ELSE <<scaleLog[2], t>>

\* A scale-in with no lower limit.
ScaleInTargetsUnclamped(d) == {n \in 0 .. (d - 1) : TRUE}

\* The capacities a scaling activity may move to: the policy sets the size of
\* the step, the group keeps the result within [min_capacity, max_capacity].
ScaleInTargets(d) == {n \in MinCapacity .. MaxCapacity : n < d}

ScaleOutTargets(d) == {n \in MinCapacity .. MaxCapacity : n > d}

\* scale_on_cpu_utilization: above the target the group grows.
ScaleOut ==
    /\ cpu > TargetUtilization
    /\ CooldownOver
    /\ \E n \in ScaleOutTargets(desired) : desired' = n
    /\ scaleLog' = Logged(now)
    /\ UNCHANGED <<inst, cpu, now>>

\* Below the target the group shrinks.
ScaleIn ==
    /\ cpu < TargetUtilization
    /\ CooldownOver
    /\ \E n \in ScaleInTargets(desired) : desired' = n
    /\ scaleLog' = Logged(now)
    /\ UNCHANGED <<inst, cpu, now>>

\* The machine under an instance fails its status checks.
Impair(i) ==
    /\ inst[i] = "running"
    /\ inst' = [inst EXCEPT ![i] = "impaired"]
    /\ UNCHANGED <<desired, cpu, now, scaleLog>>

\* health_check=HealthCheck.ec2(): the group terminates an instance whose
\* status checks fail; the replacement is launched by a later activity.
TerminateUnhealthy(i) ==
    /\ inst[i] = "impaired"
    /\ inst' = [inst EXCEPT ![i] = "none"]
    /\ UNCHANGED <<desired, cpu, now, scaleLog>>

\* The group launches from the template while it is below its desired capacity.
Launch(i) ==
    /\ inst[i] = "none"
    /\ Count < desired
    /\ inst' = [inst EXCEPT ![i] = "running"]
    /\ UNCHANGED <<desired, cpu, now, scaleLog>>

\* The group terminates an instance while it is above its desired capacity.
TerminateExcess(i) ==
    /\ inst[i] # "none"
    /\ Count > desired
    /\ inst' = [inst EXCEPT ![i] = "none"]
    /\ UNCHANGED <<desired, cpu, now, scaleLog>>

----------------------------------------------------------------------------
(* The bootstrap script (user_data.add_commands).                          *)

MaxEnvFailures == 1
MaxReruns == 2

\* The commands, in the order add_commands lists them.
Script ==
    << "shebang", "apt_update_upgrade", "apt_install", "mysql_secure",
       "create_database", "create_user", "grant", "flush_privileges",
       "create_table", "insert_seed",
       "mkdir", "cd", "venv", "activate", "pip_install", "write_app",
       "write_nginx_conf", "ln_site", "rm_default", "nginx_test_reload",
       "write_unit", "daemon_reload", "start_catalog", "enable_catalog" >>

Done == Len(Script) + 1

\* The database commands of the script ("mysql -e ...").
DbInit ==
    << "create_database", "create_user", "grant", "flush_privileges",
       "create_table", "insert_seed" >>

\* The script sets no errexit option ("set -e"): a command's exit status is
\* not looked at, and the next line runs.
ErrExit == FALSE

EmptyDb ==
    [schemas |-> {}, users |-> {}, grants |-> {}, tables |-> {},
     rows |-> <<>>, nextId |-> 1]

\* A machine just launched from the image; the script starts in "/".
FreshHost ==
    [pkgs |-> FALSE, secured |-> FALSE, db |-> EmptyDb,
     dir |-> FALSE, cwd |-> "/", venvAt |-> {}, activated |-> "none",
     gunicornAt |-> {}, appPy |-> FALSE,
     siteConf |-> <<>>, enabledSites |-> {}, nginxLoaded |-> {},
     unit |-> FALSE, svc |-> "inactive", enabled |-> FALSE]

Result(h, ok) == [m |-> h, ok |-> ok]

AppDir == "/home/ubuntu/catalog_server"

\* ---- shell: here-documents

\* The words of the script that are shell parameter references.
ShellParams == {"$host", "$remote_addr", "$proxy_add_x_forwarded_for"}

\* The script assigns no shell variable.
ShellEnv == [v \in {} |-> ""]

ExpandWord(w) ==
    IF w \in ShellParams
    THEN IF w \in DOMAIN ShellEnv THEN ShellEnv[w] ELSE ""
    ELSE w

\* "cat > file << EOL": with an unquoted delimiter the shell expands the
\* parameters in the body before cat sees it; an unset parameter expands to
\* the empty string.
HereDoc(doc, quotedDelimiter) ==
    IF quotedDelimiter
    THEN doc
    ELSE [k \in 1 .. Len(doc) |->
             [name |-> doc[k].name,
              args |-> [j \in 1 .. Len(doc[k].args) |-> ExpandWord(doc[k].args[j])]]]

\* The site configuration between "<< EOL" and "EOL", one directive each.
NginxConfText ==
    << [name |-> "listen",           args |-> <<"80">>],
       [name |-> "server_name",      args |-> <<"_">>],
       [name |-> "proxy_pass",       args |-> <<"http://127.0.0.1:5000">>],
       [name |-> "proxy_set_header", args |-> <<"Host", "$host">>],
       [name |-> "proxy_set_header", args |-> <<"X-Real-IP", "$remote_addr">>],
       [name |-> "proxy_set_header",
        args |-> <<"X-Forwarded-For", "$proxy_add_x_forwarded_for">>] >>

\* ---- nginx

NonEmpty(w) == w # ""

\* The arguments nginx reads from a directive: the words between the name
\* and the semicolon.
Tokens(args) == SelectSeq(args, NonEmpty)

DirectiveOk(d) ==
    LET n == Len(Tokens(d.args)) IN
    CASE d.name = "proxy_set_header" -> n = 2
      [] d.name = "proxy_pass"       -> n = 1
      [] OTHER                       -> n >= 1

\* "nginx -t" on one site file.
SiteOk(h, site) ==
    IF site = "default"
    THEN TRUE
    ELSE /\ h.siteConf # <<>>
         /\ \A k \in 1 .. Len(h.siteConf) : DirectiveOk(h.siteConf[k])

NginxTest(h) == h.pkgs /\ \A site \in h.enabledSites : SiteOk(h, site)

\* ---- the commands

Shebang(h, e) == Result(h, TRUE)

\* "apt update && apt upgrade -y"
AptUpdateUpgrade(h, e) == Result(h, e)

\* "apt install nginx python3 python3-pip python3-venv mysql-server -y": the
\* nginx package starts nginx with its default site enabled.
AptInstall(h, e) ==
    IF e
    THEN Result([h EXCEPT !.pkgs = TRUE,
                          !.enabledSites = IF h.pkgs THEN @ ELSE @ \cup {"default"},
                          !.nginxLoaded = IF h.pkgs THEN @ ELSE {"default"}], TRUE)
    ELSE Result(h, FALSE)

MysqlSecure(h, e) ==
    IF e /\ h.pkgs THEN Result([h EXCEPT !.secured = TRUE], TRUE) ELSE Result(h, FALSE)

\* CREATE DATABASE IF NOT EXISTS catalog
CreateDatabase(h, e) ==
    IF e /\ h.pkgs
    THEN Result([h EXCEPT !.db.schemas = @ \cup {"catalog"}], TRUE)
    ELSE Result(h, FALSE)

\* CREATE USER IF NOT EXISTS 'catalog_user'@'localhost'
CreateUser(h, e) ==
    IF e /\ h.pkgs
    THEN Result([h EXCEPT !.db.users = @ \cup {"catalog_user@localhost"}], TRUE)
    ELSE Result(h, FALSE)

\* GRANT ALL PRIVILEGES ON catalog.* TO 'catalog_user'@'localhost'
Grant(h, e) ==
    IF e /\ h.pkgs /\ "catalog_user@localhost" \in h.db.users
    THEN Result([h EXCEPT !.db.grants =
                     @ \cup {<<"catalog_user@localhost", "catalog.*">>}], TRUE)
    ELSE Result(h, FALSE)

FlushPrivileges(h, e) == Result(h, e /\ h.pkgs)

\* A table creation that replaces the table it finds.
CreateTableReplace(h, e) ==
    IF e /\ h.pkgs /\ "catalog" \in h.db.schemas
    THEN Result([h EXCEPT !.db.tables = @ \cup {"products"},
                          !.db.rows = <<>>,
                          !.db.nextId = 1], TRUE)
    ELSE Result(h, FALSE)

\* USE catalog; CREATE TABLE IF NOT EXISTS products (id INT AUTO_INCREMENT ...)
CreateTable(h, e) ==
    IF e /\ h.pkgs /\ "catalog" \in h.db.schemas
    THEN Result([h EXCEPT !.db.tables = @ \cup {"products"}], TRUE)
    ELSE Result(h, FALSE)

\* Prices are DECIMAL(10,2): kept in hundredths.
SeedRows(id) ==
    << [id |-> id, name |-> "Laptop", description |-> "A high-end laptop",
        price |-> 120000],
       [id |-> id + 1, name |-> "Phone", description |-> "Latest smartphone",
        price |-> 80000] >>

\* USE catalog; INSERT INTO products (name, description, price) VALUES (...), (...)
InsertSeed(h, e) ==
    IF e /\ h.pkgs /\ "catalog" \in h.db.schemas /\ "products" \in h.db.tables
    THEN Result([h EXCEPT !.db.rows = @ \o SeedRows(h.db.nextId),
                          !.db.nextId = @ + 2], TRUE)
    ELSE Result(h, FALSE)

\* mkdir -p /home/ubuntu/catalog_server
Mkdir(h, e) == IF e THEN Result([h EXCEPT !.dir = TRUE], TRUE) ELSE Result(h, FALSE)

Cd(h, e) ==
    IF e /\ h.dir THEN Result([h EXCEPT !.cwd = AppDir], TRUE) ELSE Result(h, FALSE)

\* "python3 -m venv venv": relative to the working directory.
Venv(h, e) ==
    IF e /\ h.pkgs
    THEN Result([h EXCEPT !.venvAt = @ \cup {h.cwd}], TRUE)
    ELSE Result(h, FALSE)

\* source venv/bin/activate
Activate(h, e) ==
    IF e /\ h.cwd \in h.venvAt
    THEN Result([h EXCEPT !.activated = h.cwd], TRUE)
    ELSE Result(h, FALSE)

\* "pip install flask flask_sqlalchemy mysqlclient gunicorn": into the
\* activated environment, or system-wide when none is.
PipInstall(h, e) ==
    IF e /\ h.pkgs
    THEN Result([h EXCEPT !.gunicornAt =
                     @ \cup {IF h.activated = "none" THEN "system" ELSE h.activated}],
                TRUE)
    ELSE Result(h, FALSE)

\* cat > /home/ubuntu/catalog_server/app.py << EOL
WriteApp(h, e) ==
    IF e /\ h.dir THEN Result([h EXCEPT !.appPy = TRUE], TRUE) ELSE Result(h, FALSE)

\* cat > /etc/nginx/sites-available/catalog << EOL
WriteNginxConf(h, e) ==
    IF e /\ h.pkgs
    THEN Result([h EXCEPT !.siteConf = HereDoc(NginxConfText, FALSE)], TRUE)
    ELSE Result(h, FALSE)

\* "ln -s /etc/nginx/sites-available/catalog /etc/nginx/sites-enabled/": fails
\* when the link exists.
LnSite(h, e) ==
    IF e /\ h.pkgs /\ "catalog" \notin h.enabledSites
    THEN Result([h EXCEPT !.enabledSites = @ \cup {"catalog"}], TRUE)
    ELSE Result(h, FALSE)

\* rm -f /etc/nginx/sites-enabled/default
RmDefault(h, e) ==
    IF e THEN Result([h EXCEPT !.enabledSites = @ \ {"default"}], TRUE)
    ELSE Result(h, FALSE)

\* "nginx -t && systemctl reload nginx": the running nginx takes the enabled
\* sites only when the test passes.
NginxTestReload(h, e) ==
    IF e /\ NginxTest(h)
    THEN Result([h EXCEPT !.nginxLoaded = h.enabledSites], TRUE)
    ELSE Result(h, FALSE)

\* cat > /etc/systemd/system/catalog.service << EOL
WriteUnit(h, e) == IF e THEN Result([h EXCEPT !.unit = TRUE], TRUE) ELSE Result(h, FALSE)

DaemonReload(h, e) == Result(h, e)

\* "systemctl start catalog": ExecStart is the gunicorn of the environment
\* under the application directory, serving app:app from there.
StartCatalog(h, e) ==
    IF e /\ h.unit
    THEN Result([h EXCEPT !.svc = IF AppDir \in h.gunicornAt /\ h.appPy
                                  THEN "active" ELSE "failed"], TRUE)
    ELSE Result(h, FALSE)

EnableCatalog(h, e) ==
    IF e /\ h.unit THEN Result([h EXCEPT !.enabled = TRUE], TRUE) ELSE Result(h, FALSE)

\* One command on host h; e is FALSE when the world outside the host makes
\* it fail (a mirror that is down, a full disk).
Exec(c, h, e) ==
    CASE c = "shebang"            -> Shebang(h, e)
      [] c = "apt_update_upgrade" -> AptUpdateUpgrade(h, e)
      [] c = "apt_install"        -> AptInstall(h, e)
      [] c = "mysql_secure"       -> MysqlSecure(h, e)
      [] c = "create_database"    -> CreateDatabase(h, e)
      [] c = "create_user"        -> CreateUser(h, e)
      [] c = "grant"              -> Grant(h, e)
      [] c = "flush_privileges"   -> FlushPrivileges(h, e)
      [] c = "create_table"       -> CreateTable(h, e)
      [] c = "insert_seed"        -> InsertSeed(h, e)
      [] c = "mkdir"              -> Mkdir(h, e)
      [] c = "cd"                 -> Cd(h, e)
      [] c = "venv"               -> Venv(h, e)
      [] c = "activate"           -> Activate(h, e)
      [] c = "pip_install"        -> PipInstall(h, e)
      [] c = "write_app"          -> WriteApp(h, e)
      [] c = "write_nginx_conf"   -> WriteNginxConf(h, e)
      [] c = "ln_site"            -> LnSite(h, e)
      [] c = "rm_default"         -> RmDefault(h, e)
      [] c = "nginx_test_reload"  -> NginxTestReload(h, e)
      [] c = "write_unit"         -> WriteUnit(h, e)
      [] c = "daemon_reload"      -> DaemonReload(h, e)
      [] c = "start_catalog"      -> StartCatalog(h, e)
      [] c = "enable_catalog"     -> EnableCatalog(h, e)

\* ---- serving

\* app.py, get_products: every row of products as {id, name, description,
\* price}, read as catalog_user.
Api(h) ==
    IF /\ "catalog_user@localhost" \in h.db.users
       /\ <<"catalog_user@localhost", "catalog.*">> \in h.db.grants
       /\ "products" \in h.db.tables
    THEN [status |-> 200, body |-> h.db.rows]
    ELSE [status |-> 500, body |-> <<>>]

\* GET /products on port 80 of the host: what the running nginx does with
\* it.  The default site serves files; the catalog site passes to port 5000.
Get80(h) ==
    IF h.nginxLoaded = {}
    THEN [status |-> 0, body |-> <<>>]
    ELSE IF h.nginxLoaded = {"catalog"}
         THEN IF h.svc = "active" THEN Api(h) ELSE [status |-> 502, body |-> <<>>]
         ELSE [status |-> 404, body |-> <<>>]

\* ---- the script as a process

BootFresh ==
    /\ pc = 1
    /\ ran = {}
    /\ failed = {}
    /\ envFails = 0
    /\ m = FreshHost
    /\ reruns = 0

\* The shell runs the command at pc and moves to the next line.
BootStep ==
    /\ pc < Done
    /\ \E e \in BOOLEAN :
          /\ ~e => (envFails < MaxEnvFailures /\ Script[pc] # "shebang")
          /\ LET r == Exec(Script[pc], m, e) IN
             /\ m' = r.m
             /\ failed' = IF r.ok THEN failed ELSE failed \cup {pc}
             /\ pc' = IF ~r.ok /\ ErrExit THEN Done ELSE pc + 1
          /\ envFails' = IF e THEN envFails ELSE envFails + 1
    /\ ran' = ran \cup {pc}
    /\ UNCHANGED reruns

RECURSIVE ExecAll(_, _)
ExecAll(cmds, h) ==
    IF cmds = <<>> THEN h ELSE ExecAll(Tail(cmds), Exec(Head(cmds), h, TRUE).m)

DbInitSucceeded ==
    \A k \in 1 .. Len(Script) :
        (\E j \in 1 .. Len(DbInit) : DbInit[j] = Script[k]) => (k \in ran /\ k \notin failed)

\* The database commands run a second time on a host where they succeeded.
RerunDbInit ==
    /\ pc = Done
    /\ DbInitSucceeded
    /\ reruns < MaxReruns
    /\ m' = ExecAll(DbInit, m)
    /\ reruns' = reruns + 1
    /\ UNCHANGED <<pc, ran, failed, envFails>>

----------------------------------------------------------------------------
(* The listener's target group and its health check.                       *)

HealthCheckTimeout == 5         \* seconds

\* HealthCheck(...) names no threshold: the load balancer's own apply.
HealthyThreshold == 5
UnhealthyThreshold == 2

MaxFails == 4

\* targets=[asg]: the fleet's instances are the registered targets.
Targets == Members

NoFwd == [to |-> 0, health |-> "none", failOpen |-> FALSE]

LbIdle ==
    /\ health = [i \in Slots |-> "initial"]
    /\ fails = [i \in Slots |-> 0]
    /\ passes = [i \in Slots |-> 0]
    /\ fwd = NoFwd

\* What a target may answer to a probe: a status, after so many seconds.
Responses == [status : {200, 404, 502}, seconds : {1, 6}]

\* A probe (GET /products) passes when it is answered 200 within the timeout.
ProbePasses(resp) == resp.status = 200 /\ resp.seconds <= HealthCheckTimeout

AtMost(n, cap) == IF n < cap THEN n ELSE cap

\* A health check that waits for two more failures.
NextHealthLate(h, f, p) ==
    IF f >= UnhealthyThreshold + 2 THEN "unhealthy"
    ELSE IF p >= HealthyThreshold THEN "healthy"
    ELSE h

NextHealth(h, f, p) ==
    IF f >= UnhealthyThreshold THEN "unhealthy"
    ELSE IF p >= HealthyThreshold THEN "healthy"
    ELSE h

\* One health-check probe of target i, answered by resp.
Probe(i, resp) ==
    /\ i \in Targets
    /\ LET ok == ProbePasses(resp)
           f  == IF ok THEN 0 ELSE AtMost(fails[i] + 1, MaxFails)
           p  == IF ok THEN AtMost(passes[i] + 1, HealthyThreshold) ELSE 0
       IN /\ fails' = [fails EXCEPT ![i] = f]
          /\ passes' = [passes EXCEPT ![i] = p]
          /\ health' = [health EXCEPT ![i] = NextHealth(health[i], f, p)]
    /\ UNCHANGED fwd

AllUnhealthy == \A t \in Targets : health[t] = "unhealthy"

\* The targets requests are forwarded to: the healthy ones; when the group
\* holds only unhealthy targets, the balancer forwards to all of them.
Rotation ==
    IF AllUnhealthy THEN Targets ELSE {t \in Targets : health[t] = "healthy"}

\* A client request on the listener, forwarded to target i.
Forward(i) ==
    /\ i \in Rotation
    /\ fwd' = [to |-> i, health |-> health[i], failOpen |-> AllUnhealthy]
    /\ UNCHANGED <<health, fails, passes>>

----------------------------------------------------------------------------
(* One fleet member from launch on: its script, the probes it answers, and *)
(* the group's health check of it.                                         *)

\* The member watched: the first slot.
Host == CHOOSE i \in Slots : \A j \in Slots : i <= j

\* The answer the host gives on port 80, at once.
HostResponse == [status |-> Get80(m).status, seconds |-> 1]

HostBoot ==
    /\ inst[Host] # "none"
    /\ BootStep
    /\ UNCHANGED <<planVars, fleetVars, lbVars>>

HostProbe ==
    /\ Probe(Host, HostResponse)
    /\ UNCHANGED <<planVars, fleetVars, bootVars>>

HostImpair ==
    /\ Impair(Host)
    /\ UNCHANGED <<planVars, bootVars, lbVars>>

\* The group's health check is the machine's status check: the target
\* group's verdict is not part of it.
HostTerminate ==
    /\ TerminateUnhealthy(Host)
    /\ health' = [health EXCEPT ![Host] = "initial"]
    /\ fails' = [fails EXCEPT ![Host] = 0]
    /\ passes' = [passes EXCEPT ![Host] = 0]
    /\ UNCHANGED <<planVars, bootVars, fwd>>

\* The replacement runs the script from its first line.
HostLaunch ==
    /\ Launch(Host)
    /\ pc' = 1
    /\ ran' = {}
    /\ failed' = {}
    /\ envFails' = 0
    /\ m' = FreshHost
    /\ UNCHANGED <<planVars, reruns, lbVars>>

----------------------------------------------------------------------------

PlanInit ==
    /\ region \in Regions
    /\ phase = "declared"
    /\ image = [kind |-> "none", id |-> "none"]
    /\ created = {}
    /\ conn = NoConn

\* The plan applied in the one region the image map covers.
PlanApplied ==
    /\ region = "eu-west-1"
    /\ phase = "deploying"
    /\ image = [kind |-> "ami", id |-> AmiMap["eu-west-1"]]
    /\ created = Resources
    /\ conn = NoConn

Init == PlanInit /\ FleetIdle /\ BootFresh /\ LbIdle

Next ==
    \/ Synth /\ UNCHANGED <<fleetVars, bootVars, lbVars>>
    \/ Submit /\ UNCHANGED <<fleetVars, bootVars, lbVars>>
    \/ \E r \in Resources : Create(r) /\ UNCHANGED <<fleetVars, bootVars, lbVars>>
    \/ \E s \in Sources, p \in Ports : Connect(s, p) /\ UNCHANGED <<fleetVars, bootVars, lbVars>>

Spec == Init /\ [][Next]_vars

FleetInit == PlanApplied /\ FleetUp /\ BootFresh /\ LbIdle

FleetNext ==
    \/ Tick /\ UNCHANGED <<planVars, bootVars, lbVars>>
    \/ \E c \in CpuLevels : CpuReport(c) /\ UNCHANGED <<planVars, bootVars, lbVars>>
    \/ ScaleOut /\ UNCHANGED <<planVars, bootVars, lbVars>>
    \/ ScaleIn /\ UNCHANGED <<planVars, bootVars, lbVars>>
    \/ \E i \in Slots : Impair(i) /\ UNCHANGED <<planVars, bootVars, lbVars>>
    \/ \E i \in Slots : TerminateUnhealthy(i) /\ UNCHANGED <<planVars, bootVars, lbVars>>
    \/ \E i \in Slots : Launch(i) /\ UNCHANGED <<planVars, bootVars, lbVars>>
    \/ \E i \in Slots : TerminateExcess(i) /\ UNCHANGED <<planVars, bootVars, lbVars>>

FleetSpec == FleetInit /\ [][FleetNext]_vars

BootInit == PlanApplied /\ FleetUp /\ BootFresh /\ LbIdle

BootNext ==
    \/ BootStep /\ UNCHANGED <<planVars, fleetVars, lbVars>>
    \/ RerunDbInit /\ UNCHANGED <<planVars, fleetVars, lbVars>>

BootSpec == BootInit /\ [][BootNext]_vars

TargetInit == PlanApplied /\ FleetUp /\ BootFresh /\ LbIdle

TargetNext ==
    \/ \E i \in Slots, r \in Responses :
          Probe(i, r) /\ UNCHANGED <<planVars, fleetVars, bootVars>>
    \/ \E i \in Slots : Forward(i) /\ UNCHANGED <<planVars, fleetVars, bootVars>>

TargetSpec == TargetInit /\ [][TargetNext]_vars

HostInit == PlanApplied /\ FleetUp /\ BootFresh /\ LbIdle

HostNext ==
    \/ HostBoot
    \/ HostProbe
    \/ HostImpair
    \/ HostTerminate
    \/ HostLaunch

\* The script runs to its end, the balancer keeps probing, and the group
\* acts on what its health check reports; nothing obliges a machine to fail.
HostSpec ==
    /\ HostInit
    /\ [][HostNext]_vars
    /\ WF_vars(HostBoot)
    /\ WF_vars(HostProbe)
    /\ WF_vars(HostTerminate)
    /\ WF_vars(HostLaunch)

----------------------------------------------------------------------------
(* Properties of plan application and of the security group (Spec).        *)

\* C1: a source that is not a member of the security group is denied on
\* TCP 3306; the only rule admitting 3306 is the self-referential one, and
\* the rules open to any source admit ports 80 and 443 only.
C1_DbPortClosedToOutsiders ==
    /\ (conn.verdict # "none" /\ conn.port = 3306 /\ "ServerSG" \notin conn.groups)
           => conn.verdict = "deny"
    /\ \A rule \in IngressRules : rule.port = 3306 => rule.peer = "ServerSG"
    /\ \A rule \in IngressRules : rule.peer = AnyIpv4 => rule.port \in {80, 443}

C1_Witness ==
    conn.src = "internet" /\ conn.port = 3306 /\ conn.verdict = "deny"

Chain ==
    << "CatalogVPC", "ServerSG", "CatalogServerRole", "CatalogLaunchTemplate",
       "CatalogASG", "WebTarget" >>

\* C4, as claimed: no resource of the chain Network, Access Policy, Identity
\* Role, Launch Template, Instance Fleet, Load Balancer attachment exists
\* before the one preceding it in the chain.
C4_ChainOrder ==
    \A k \in 2 .. Len(Chain) : Chain[k] \in created => Chain[k - 1] \in created

\* C4, amended: creation respects the references.  The network precedes the
\* access policy; the access policy and the identity role both precede the
\* launch template; the launch template precedes the fleet; the fleet
\* precedes the load balancer attachment.  The identity role references
\* nothing and is ordered after nothing.
C4_ReferenceOrder ==
    /\ "ServerSG" \in created => "CatalogVPC" \in created
    /\ "CatalogLaunchTemplate" \in created
           => {"ServerSG", "CatalogServerRole", "CatalogVPC"} \subseteq created
    /\ "CatalogASG" \in created => "CatalogLaunchTemplate" \in created
    /\ "WebTarget" \in created => "CatalogASG" \in created

C4_Witness == phase = "deploying" /\ "WebTarget" \in created

\* C9, as claimed: in a region the image map has no entry for, the run fails
\* while the plan is compiled.
C9_FailsAtCompile ==
    region \notin DOMAIN AmiMap => phase \in {"declared", "synth_failed"}

\* C9, amended: in a region the image map has no entry for, the plan compiles
\* (the stack names no region, so the lookup is left to the backend), the
\* submitted template is rejected, and no resource is ever created.
C9_RejectedBeforeCreation ==
    region \notin DOMAIN AmiMap
        => /\ created = {}
           /\ phase \in {"declared", "synthesized", "rejected"}

C9_Witness == region \notin DOMAIN AmiMap /\ phase = "rejected"

----------------------------------------------------------------------------
(* Properties of the fleet (FleetSpec).                                    *)

----------------------------------------------------------------------------
(* Properties of the bootstrap script (BootSpec).                          *)

\* C6: if a command of the script fails, no later command is executed: the
\* script stops at the first failing command, wherever it is.
C6_StopsAtFirstFailure ==
    \A k \in failed : \A j \in ran : j <= k

\* C7: after the script has run once on a fresh host, every command executed
\* in order, GET /products on port 80 reaches the API through the reverse
\* proxy and returns exactly the two seed records, Laptop at 1200.00 and
\* Phone at 800.00.
C7_SeedCatalogServed ==
    (pc = Done /\ envFails = 0 /\ reruns = 0)
        => Get80(m) = [status |-> 200, body |-> SeedRows(1)]

\* C10, as claimed: running the database commands a second time leaves the
\* schema, the user, the grants, the table and the rows as they were.
C10_RerunChangesNothing ==
    [][reruns' # reruns => m'.db = m.db]_vars

\* C10, amended: running the database commands a second time leaves the
\* schema, the user, the grants and the products table as they were, and the
\* rows already there untouched; it appends the two seed rows once more,
\* under new ids.
C10_RerunAppendsSeedRows ==
    [][reruns' # reruns =>
          /\ m'.db.schemas = m.db.schemas
          /\ m'.db.users = m.db.users
          /\ m'.db.grants = m.db.grants
          /\ m'.db.tables = m.db.tables
          /\ m'.db.rows = m.db.rows \o SeedRows(m.db.nextId)
          /\ \A k \in 1 .. Len(m.db.rows) : m.db.rows[k].id < m.db.nextId]_vars

C10_Witness ==
    reruns = 1 /\ Len(m.db.rows) = 4 /\ m.db.tables = {"products"}

----------------------------------------------------------------------------
(* Properties of the target group (TargetSpec).                            *)

\* C8, as claimed: a registered target that fails three consecutive probes
\* is out of rotation, and a target out of rotation is forwarded no request.
C8_FailingTargetGetsNoTraffic ==
    /\ \A i \in Targets : fails[i] >= 3 => (health[i] = "unhealthy" /\ i \notin Rotation)
    /\ fwd.health # "unhealthy"

\* C8, amended: a registered target that fails three consecutive probes is
\* marked unhealthy; unless every registered target is unhealthy it is out of
\* rotation and is forwarded no request.  When every registered target is
\* unhealthy the balancer forwards to all of them.
C8_FailingTargetOutUnlessAllFail ==
    /\ \A i \in Targets :
          fails[i] >= 3 =>
             /\ health[i] = "unhealthy"
             /\ ~AllUnhealthy => i \notin Rotation
    /\ fwd.health = "unhealthy" => fwd.failOpen
    /\ fwd.to # 0 /\ ~fwd.failOpen => fwd.health = "healthy"

C8_Witness ==
    \E i, j \in Targets :
        /\ fails[i] >= 3
        /\ health[i] = "unhealthy"
        /\ health[j] = "healthy"
        /\ fwd.to = j

----------------------------------------------------------------------------
(* Properties of one fleet member (HostSpec).                              *)

BootFailed == failed # {}

\* C5: an instance on which a bootstrap command fails never passes the
\* GET /products health check, and the fleet manager eventually terminates
\* and replaces it.
C5_FailedBootReplaced ==
    /\ [](BootFailed => health[Host] # "healthy")
    /\ (BootFailed ~> inst[Host] = "none")

====
